---- MODULE Spec2Model ----
(***************************************************************************)
(* Model of the Telegram music catalog bot (bot.py): the audio handler     *)
(* add_track, the query handlers music / default / more, and search_tracks *)
(* with the pymongo cursor it drives.                                      *)
(*                                                                         *)
(* Documents are TLA+ records whose DOMAIN is the set of keys present, so  *)
(* `"title" not in audio` is "title" \notin DOMAIN audio.  Text scores are *)
(* kept in tenths (1.1 is 11) because TLC has no reals.                    *)
(***************************************************************************)
EXTENDS Integers, Sequences, FiniteSets, TLC

VARIABLES
    tracks,     \* db.tracks, in insertion order
    req,        \* the update handled last
    texts,      \* chat.send_text calls of the last handler, in order
    audios,     \* chat.send_audio calls of the last handler, in order
    raised,     \* exception that ended the last handler, or "none"
    turn,       \* history: k when pages 1..k of req.query were asked in turn, else 0
    delivered,  \* history: file ids sent to the chat over pages 1..turn
    users,      \* db.users, in insertion order
    chats,      \* per chat: its last query, the reply to it, and whether it repeated
    proc        \* per bot process: the handler it runs and where that handler is

vars == <<tracks, req, texts, audios, raised, turn, delivered, users, chats, proc>>

----------------------------------------------------------------------------
(* Bounds of the model *)

MaxFileId == 2      \* file ids a submission may carry: 1..MaxFileId
MaxCatalog == 6     \* largest catalog the search specification starts from
MaxPage == 2        \* largest page number a request asks for
MaxSessionCatalog == 4  \* largest catalog the chats of SessionSpec search
MaxSized == 3       \* largest store /stats is asked about in StatsSpec
MaxRaceFileId == 1  \* file ids the concurrent bot processes submit: 1..MaxRaceFileId

(* Inputs *)

None == "None"
FileIds == 1 .. MaxFileId
Senders == {1, 2}
Procs == {1, 2}
Titles == {"haze"}
Performers == {"haze", "dana"}
Queries == {"haze", "dana"}

\* Message texts of the bot
not_found == "We don't have anything matching your search yet"
missing_title == "Sorry, but your track is missing title"

\* dict.get(key): the value, or None when the key is absent
Get(doc, key) == IF key \in DOMAIN doc THEN doc[key] ELSE None

\* An audio payload of the transport: title and performer are optional keys
MkAudio(fid, title, performer) ==
    IF title = None /\ performer = None THEN [file_id |-> fid]
    ELSE IF title = None THEN [file_id |-> fid, performer |-> performer]
    ELSE IF performer = None THEN [file_id |-> fid, title |-> title]
    ELSE [file_id |-> fid, title |-> title, performer |-> performer]

Audios ==
    { MkAudio(fid, t, p) : fid \in FileIds,
                           t \in Titles \cup {None},
                           p \in Performers \cup {None} }

----------------------------------------------------------------------------
(* db.tracks *)

\* Faulty variant of find_one: the lookup never finds the track
find_one_miss(fid) == FALSE

\* db.tracks.find_one({"file_id": fid}) is truthy
find_one(fid) == \E i \in 1 .. Len(tracks) : tracks[i].file_id = fid

\* Faulty variant of HasTitle: the title is not validated
HasTitleAny(audio) == TRUE

\* "title" in audio
HasTitle(audio) == "title" \in DOMAIN audio

\* Faulty variant of MakeDoc: the sender is not attached
MakeDocNoSender(audio, sender) == audio

\* doc = audio.copy(); doc["sender"] = chat.sender["id"]

MakeDoc(audio, sender) ==
    [k \in DOMAIN audio \cup {"sender"} |->
        IF k = "sender" THEN sender ELSE audio[k]]

----------------------------------------------------------------------------
(* The text index on (title, performer) and the pymongo cursor             *)

Tenths(n) == n * 10

\* textScore of a document for a one-word query: each indexed field that is
\* exactly the query word scores 1.1, a document matching in no field is not
\* a match (score 0)
Score(doc, query) ==
    (IF Get(doc, "title") = query THEN Tenths(1) + 1 ELSE 0)
    + (IF Get(doc, "performer") = query THEN Tenths(1) + 1 ELSE 0)

\* the projection {'score': {'$meta': 'textScore'}} adds the score to each match
WithScore(doc, query) ==
    [k \in DOMAIN doc \cup {"score"} |->
        IF k = "score" THEN Score(doc, query) ELSE doc[k]]

\* .sort([('score', {'$meta': 'textScore'})]): descending score; documents of
\* equal score keep their order in the collection
RECURSIVE SortByScore(_)
SortByScore(docs) ==
    IF docs = <<>> THEN <<>>
    ELSE LET h == Head(docs)
             rest == SortByScore(Tail(docs))
             k == Cardinality({i \in 1 .. Len(rest) : rest[i].score > h.score})
         IN SubSeq(rest, 1, k) \o <<h>> \o SubSeq(rest, k + 1, Len(rest))

\* db.tracks.find({'$text': {'$search': query}}, ...) : the matching documents
FindText(query) ==
    LET hit(doc) == Score(doc, query) > 0
        hits == SelectSeq(tracks, hit)
    IN [i \in 1 .. Len(hits) |-> WithScore(hits[i], query)]

\* A pymongo Cursor: the query's ranked matches, and the skip and limit set on
\* it (limit 0 is no limit)
search_db(query) ==
    [docs |-> SortByScore(FindText(query)), skip |-> 0, limit |-> 0]

\* Cursor.skip(n), Cursor.limit(n)
CursorSkip(cursor, n) == [cursor EXCEPT !.skip = n]
CursorLimit(cursor, n) == [cursor EXCEPT !.limit = n]

\* Faulty variant of CursorCount: count(with_limit_and_skip=True)
CursorCountWindowed(cursor) ==
    LET left == Len(cursor.docs) - cursor.skip
        n == IF left < 0 THEN 0 ELSE left
    IN IF cursor.limit > 0 /\ n > cursor.limit THEN cursor.limit ELSE n

\* Cursor.count(): with_limit_and_skip defaults to False, so skip and limit
\* are ignored
CursorCount(cursor) == Len(cursor.docs)

\* iterating the cursor: the documents of its window
CursorDocs(cursor) ==
    LET n == Len(cursor.docs)
        last == IF cursor.limit = 0 \/ cursor.skip + cursor.limit > n
                THEN n ELSE cursor.skip + cursor.limit
    IN SubSeq(cursor.docs, cursor.skip + 1, last)

\* cursor[index]: a clone with skip(index + skip) and a hard limit of one;
\* IndexError when it yields nothing
CursorHasItem(cursor, index) == cursor.skip + index < Len(cursor.docs)
CursorItem(cursor, index) == cursor.docs[cursor.skip + index + 1]

\* cursor[:stop]: a slice index overrides the skip and the limit set before
CursorSlice(cursor, stop) == [cursor EXCEPT !.skip = 0, !.limit = stop]

----------------------------------------------------------------------------
(* search_tracks *)

PageLimit == 3

\* Faulty variant of Offset: the server keeps the position, every query
\* served so far moves it one page on
OffsetServerSide(page, limit) ==
    Cardinality({s \in Senders : chats[s].page >= 1}) * limit

\* Faulty variant of Offset: pages counted from 0
OffsetOffByOne(page, limit) == page * limit

\* offset = (page - 1) * limit
Offset(page, limit) == (page - 1) * limit

\* show_more = count > newoff
ShowMore(count, newoff) == count > newoff

\* Faulty variant of TotalPages: integer division, without the ceiling
TotalPagesFloor(count, limit) == count \div limit

\* pages = math.ceil(count / limit)
TotalPages(count, limit) == (count + limit - 1) \div limit

\* the reply keyboards
HideKeyboard == [hide_keyboard |-> TRUE, page |-> 0, pages |-> 0, query |-> ""]

ShowMoreKeyboard(page, pages, query) ==
    [hide_keyboard |-> FALSE, page |-> page, pages |-> pages, query |-> query]

\* chat.send_audio(audio=..., title=..., performer=..., reply_markup=...)
send_track(keyboard, track) ==
    [audio |-> track.file_id,
     title |-> Get(track, "title"),
     performer |-> Get(track, "performer"),
     reply_markup |-> keyboard]

Reply(t, a, e) == [texts |-> t, audios |-> a, raised |-> e]

\* Faulty variant of IsExact: the short-circuit only on the first page
IsExactFirstPage(results) ==
    /\ results.skip = 0
    /\ CursorItem(results, 0).score >= Tenths(2)

\* if results[0]["score"] >= 2: the page asked for is not looked at
IsExact(results) == CursorItem(results, 0).score >= Tenths(2)

\* What search_tracks(chat, query, page) sends, and how it ends
search_tracks(query, page) ==
    LET limit == PageLimit
        offset == Offset(page, limit)
        results == CursorLimit(CursorSkip(search_db(query), offset), limit)
        count == CursorCount(results)
    IN IF count = 0
       THEN Reply(<<not_found>>, <<>>, "none")
       ELSE IF ~CursorHasItem(results, 0)
       THEN Reply(<<>>, <<>>, "IndexError")
       ELSE LET exact == IsExact(results)
                limit2 == IF exact THEN 1 ELSE limit
                results2 == IF exact THEN CursorSlice(results, 1) ELSE results
                newoff == offset + limit2
                show_more == ShowMore(count, newoff)
                keyboard == IF show_more
                            THEN ShowMoreKeyboard(page, TotalPages(count, limit2), query)
                            ELSE HideKeyboard
                docs == CursorDocs(results2)
            IN Reply(<<>>,
                     [i \in 1 .. Len(docs) |-> send_track(keyboard, docs[i])],
                     "none")

----------------------------------------------------------------------------
(* The handlers *)

\* a chat that has asked nothing yet, a bot process that handles nothing
IdleChat ==
    [query |-> "", page |-> 0, texts |-> <<>>, audios |-> <<>>,
     raised |-> "none", again |-> FALSE]

IdleProc == [pc |-> "idle"]

\* what a handler that runs alone in the one bot process leaves as it is
Elsewhere == UNCHANGED <<chats, proc>>

Silent ==
    /\ texts' = <<>>
    /\ audios' = <<>>
    /\ raised' = "none"

NoSession ==
    /\ turn' = 0
    /\ delivered' = <<>>

\* Faulty variant of add_track: the title is validated before the lookup
add_track_title_first(sender, audio) ==
    /\ req' = [op |-> "audio", sender |-> sender, audio |-> audio]
    /\ NoSession
    /\ Elsewhere
    /\ UNCHANGED users
    /\ IF ~HasTitle(audio)
       THEN /\ texts' = <<missing_title>>
            /\ audios' = <<>>
            /\ raised' = "none"
            /\ UNCHANGED tracks
       ELSE IF find_one(audio.file_id)
       THEN /\ Silent
            /\ UNCHANGED tracks
       ELSE /\ tracks' = Append(tracks, MakeDoc(audio, sender))
            /\ Silent

\* @bot.handle("audio")
add_track(sender, audio) ==
    /\ req' = [op |-> "audio", sender |-> sender, audio |-> audio]
    /\ NoSession
    /\ Elsewhere
    /\ UNCHANGED users
    /\ IF find_one(audio.file_id)
       THEN /\ Silent
            /\ UNCHANGED tracks
       ELSE IF ~HasTitle(audio)
       THEN /\ texts' = <<missing_title>>
            /\ audios' = <<>>
            /\ raised' = "none"
            /\ UNCHANGED tracks
       ELSE /\ tracks' = Append(tracks, MakeDoc(audio, sender))
            /\ Silent

\* The reply of search_tracks reaches the chat
Searched(query, page) ==
    LET r == search_tracks(query, page)
    IN /\ texts' = r.texts
       /\ audios' = r.audios
       /\ raised' = r.raised
       /\ UNCHANGED tracks

FileIdsOf(msgs) == [i \in 1 .. Len(msgs) |-> msgs[i].audio]

FirstPage ==
    /\ turn' = 1
    /\ delivered' = FileIdsOf(audios')

\* @bot.command(r'/music (.+)')
music(query) ==
    /\ req' = [op |-> "music", query |-> query, page |-> 1]
    /\ Searched(query, 1)
    /\ FirstPage
    /\ Elsewhere
    /\ UNCHANGED users

\* @bot.default
default(query) ==
    /\ req' = [op |-> "default", query |-> query, page |-> 1]
    /\ Searched(query, 1)
    /\ FirstPage
    /\ Elsewhere
    /\ UNCHANGED users

IsSearch(r) == r.op \in {"music", "default", "more"}

\* @bot.command(r'\((\d+)/\d+\) show more for "(.+)"'): the text names the
\* page n it was offered on; the total in it is not read
more(n, query) ==
    LET page == n + 1
    IN /\ req' = [op |-> "more", query |-> query, page |-> page]
       /\ Searched(query, page)
       /\ IF IsSearch(req) /\ req.query = query /\ req.page = n /\ turn = n
          THEN /\ turn' = page
               /\ delivered' = delivered \o FileIdsOf(audios')
          ELSE NoSession
       /\ Elsewhere
       /\ UNCHANGED users

Init ==
    /\ tracks = <<>>
    /\ req = [op |-> "none"]
    /\ texts = <<>>
    /\ audios = <<>>
    /\ raised = "none"
    /\ turn = 0
    /\ delivered = <<>>
    /\ users = <<>>
    /\ chats = [s \in Senders |-> IdleChat]
    /\ proc = [w \in Procs |-> IdleProc]

Next ==
    \/ \E s \in Senders, a \in Audios : add_track(s, a)
    \/ \E q \in Queries : music(q)
    \/ \E q \in Queries : default(q)
    \/ \E n \in 1 .. MaxPage - 1, q \in Queries : more(n, q)

Spec == Init /\ [][Next]_vars

----------------------------------------------------------------------------
(* Searching a catalog that does not change: every catalog of at most      *)
(* MaxCatalog tracks that submissions can build (distinct file ids, every  *)
(* track titled and carrying its sender)                                   *)

MkTrack(fid, shape) ==
    MakeDoc(MkAudio(fid, shape[1], shape[2]), 1)

Shapes == Titles \X (Performers \cup {None})

Catalogs ==
    UNION { { [i \in 1 .. n |-> MkTrack(i, f[i])] : f \in [1 .. n -> Shapes] }
            : n \in 0 .. MaxCatalog }

InitSearch ==
    /\ tracks \in Catalogs
    /\ req = [op |-> "none"]
    /\ texts = <<>>
    /\ audios = <<>>
    /\ raised = "none"
    /\ turn = 0
    /\ delivered = <<>>
    /\ users = <<>>
    /\ chats = [s \in Senders |-> IdleChat]
    /\ proc = [w \in Procs |-> IdleProc]

NextSearch ==
    \/ \E q \in Queries : music(q)
    \/ \E q \in Queries : default(q)
    \/ \E n \in 1 .. MaxPage - 1, q \in Queries : more(n, q)

SearchSpec == InitSearch /\ [][NextSearch]_vars

----------------------------------------------------------------------------
(* Several chats searching a catalog that does not change.  Each chat's    *)
(* query runs search_tracks with that chat's query and page; the requests  *)
(* of the chats interleave in any order                                    *)

\* search_tracks(chat, query, page) replies to the chat that asked
ChatSearched(s, query, page) ==
    LET r == search_tracks(query, page)
    IN /\ chats' = [chats EXCEPT ![s] =
                      [query |-> query, page |-> page,
                       texts |-> r.texts, audios |-> r.audios, raised |-> r.raised,
                       again |-> chats[s].query = query /\ chats[s].page = page]]
       /\ UNCHANGED <<tracks, req, texts, audios, raised, turn, delivered, users, proc>>

\* music / default of chat s
chat_query(s, query) == ChatSearched(s, query, 1)

\* more of chat s
chat_more(s, n, query) == ChatSearched(s, query, n + 1)

SessionCatalogs == {c \in Catalogs : Len(c) <= MaxSessionCatalog}

InitSession ==
    /\ tracks \in SessionCatalogs
    /\ req = [op |-> "none"]
    /\ texts = <<>>
    /\ audios = <<>>
    /\ raised = "none"
    /\ turn = 0
    /\ delivered = <<>>
    /\ users = <<>>
    /\ chats = [s \in Senders |-> IdleChat]
    /\ proc = [w \in Procs |-> IdleProc]

NextSession ==
    \/ \E s \in Senders, q \in Queries : chat_query(s, q)
    \/ \E s \in Senders, n \in 1 .. MaxPage - 1, q \in Queries : chat_more(s, n, q)

SessionSpec == InitSession /\ [][NextSession]_vars

----------------------------------------------------------------------------
(* /stats and human_size                                                   *)

stats_unavailable == "Stats are not yet available"

\* suffixes = ['B', 'KB', 'MB', 'GB', 'TB', 'PB']
suffixes == <<"B", "KB", "MB", "GB", "TB", "PB">>

\* int(math.log10(nbytes)), for nbytes >= 1
RECURSIVE Log10Floor(_)
Log10Floor(n) == IF n < 10 THEN 0 ELSE 1 + Log10Floor(n \div 10)

RECURSIVE Pow(_, _)
Pow(b, e) == IF e = 0 THEN 1 ELSE b * Pow(b, e - 1)

\* '%.2f' % (num / den): the quotient in hundredths, a tie rounded to even
Hundredths(num, den) ==
    LET q == (num * 100) \div den
        r == (num * 100) % den
    IN IF 2 * r > den \/ (2 * r = den /\ q % 2 = 1) THEN q + 1 ELSE q

\* human_size(nbytes), for nbytes >= 1: the value in hundredths (what is left
\* of '%.2f' once trailing zeros and the point are stripped) and the suffix
human_size(nbytes) ==
    LET rank0 == Log10Floor(nbytes) \div 3
        rank == IF rank0 < Len(suffixes) - 1 THEN rank0 ELSE Len(suffixes) - 1
    IN [hundredths |-> Hundredths(nbytes, Pow(1024, rank)),
        suffix |-> suffixes[rank + 1]]

\* math.log10(nbytes) raises ValueError (math domain error) for nbytes <= 0
human_size_raises(nbytes) == nbytes <= 0

\* {"$sum": "$file_size"}: documents without file_size add 0
RECURSIVE SumFileSize(_)
SumFileSize(docs) ==
    IF docs = <<>> THEN 0
    ELSE (IF "file_size" \in DOMAIN Head(docs) THEN Head(docs).file_size ELSE 0)
         + SumFileSize(Tail(docs))

\* list(db.tracks.aggregate([group])): one group for a collection that holds
\* documents, none for an empty one
aggregate == IF tracks = <<>> THEN <<>> ELSE <<[size |-> SumFileSize(tracks)]>>

\* @bot.command(r'/stats')
stats ==
    LET count == Len(tracks)
        aggr == aggregate
    IN /\ req' = [op |-> "stats"]
       /\ audios' = <<>>
       /\ IF Len(aggr) = 0
          THEN texts' = <<stats_unavailable>> /\ raised' = "none"
          ELSE IF human_size_raises(aggr[1].size)
          THEN texts' = <<>> /\ raised' = "ValueError"
          ELSE /\ texts' = <<[tracks |-> count, size |-> human_size(aggr[1].size)]>>
               /\ raised' = "none"
       /\ NoSession
       /\ Elsewhere
       /\ UNCHANGED <<tracks, users>>

\* Stores whose tracks carry a file_size, or none
FileSizes == {<<>>, <<0>>, <<999>>, <<1536>>}

MkSized(fid, size) ==
    IF size = <<>>
    THEN [file_id |-> fid, title |-> "haze", sender |-> 1]
    ELSE [file_id |-> fid, title |-> "haze", sender |-> 1, file_size |-> size[1]]

SizedCatalogs ==
    UNION { { [i \in 1 .. n |-> MkSized(i, f[i])] : f \in [1 .. n -> FileSizes] }
            : n \in 0 .. MaxSized }

InitStats ==
    /\ tracks \in SizedCatalogs
    /\ req = [op |-> "none"]
    /\ texts = <<>>
    /\ audios = <<>>
    /\ raised = "none"
    /\ turn = 0
    /\ delivered = <<>>
    /\ users = <<>>
    /\ chats = [s \in Senders |-> IdleChat]
    /\ proc = [w \in Procs |-> IdleProc]

NextStats == stats

StatsSpec == InitStats /\ [][NextStats]_vars

----------------------------------------------------------------------------
(* Bot processes sharing the database.  A process runs one handler at a    *)
(* time (add_track and start are plain functions, nothing else runs in the *)
(* process between their statements), but the database is shared: between  *)
(* two database calls of a handler in one process, a handler in another    *)
(* process may run its own.  Each step below is one database call together *)
(* with the statements up to the next one.                                 *)

\* Faulty variant of insert_one: a unique index on file_id, a second record
\* for a stored file id is not written
insert_one_unique(collection, doc) ==
    IF \E i \in 1 .. Len(collection) : collection[i].file_id = doc.file_id
    THEN collection
    ELSE Append(collection, doc)

\* collection.insert_one(doc): the indexes on file_id and id are not unique
insert_one(collection, doc) == Append(collection, doc)

Free(w) == proc[w].pc \in {"idle", "done"}

\* add_track up to and including its return or its title check: find_one
add_track_find(w, sender, audio) ==
    /\ Free(w)
    /\ proc' = [proc EXCEPT ![w] =
          [op |-> "audio", sender |-> sender, audio |-> audio,
           found |-> find_one(audio.file_id),
           pc |-> IF find_one(audio.file_id) \/ ~HasTitle(audio)
                  THEN "done" ELSE "insert",
           texts |-> IF ~find_one(audio.file_id) /\ ~HasTitle(audio)
                     THEN <<missing_title>> ELSE <<>>,
           inserted |-> FALSE]]
    /\ UNCHANGED <<tracks, req, texts, audios, raised, turn, delivered, users, chats>>

\* add_track from doc = audio.copy() on: insert_one
add_track_insert(w) ==
    /\ proc[w].pc = "insert"
    /\ proc[w].op = "audio"
    /\ tracks' = insert_one(tracks, MakeDoc(proc[w].audio, proc[w].sender))
    /\ proc' = [proc EXCEPT ![w].pc = "done", ![w].inserted = TRUE]
    /\ UNCHANGED <<req, texts, audios, raised, turn, delivered, users, chats>>

RaceAudios ==
    {a \in Audios : a.file_id <= MaxRaceFileId /\ "performer" \notin DOMAIN a}

NextTrackRace ==
    \/ \E w \in Procs, s \in Senders, a \in RaceAudios : add_track_find(w, s, a)
    \/ \E w \in Procs : add_track_insert(w)

TrackRaceSpec == Init /\ [][NextTrackRace]_vars

----------------------------------------------------------------------------
(* /start and /stop of bot processes sharing db.users                      *)

greeting == "greeting"
goodbye == "Goodbye! We will miss you"

\* db.users.find_one({"id": tuid})
find_user(tuid) == \E i \in 1 .. Len(users) : users[i].id = tuid

\* chat.sender.copy(): the sender's profile, reduced to its id
SenderDoc(sender) == [id |-> sender]

\* db.users.delete_one({"id": tuid}): removes the first record of that id
RECURSIVE delete_one(_, _)
delete_one(collection, tuid) ==
    IF collection = <<>> THEN <<>>
    ELSE IF Head(collection).id = tuid THEN Tail(collection)
    ELSE <<Head(collection)>> \o delete_one(Tail(collection), tuid)

\* start up to its insert: find_one; a known user is greeted at once
start_find(w, sender) ==
    /\ Free(w)
    /\ proc' = [proc EXCEPT ![w] =
          [op |-> "start", sender |-> sender,
           pc |-> IF find_user(sender) THEN "done" ELSE "insert",
           texts |-> IF find_user(sender) THEN <<greeting>> ELSE <<>>]]
    /\ UNCHANGED <<tracks, req, texts, audios, raised, turn, delivered, users, chats>>

\* start from its insert on: insert_one, then the greeting
start_insert(w) ==
    /\ proc[w].pc = "insert"
    /\ proc[w].op = "start"
    /\ users' = insert_one(users, SenderDoc(proc[w].sender))
    /\ proc' = [proc EXCEPT ![w].pc = "done", ![w].texts = <<greeting>>]
    /\ UNCHANGED <<tracks, req, texts, audios, raised, turn, delivered, chats>>

\* stop: its one database call and its reply
stop_proc(w, sender) ==
    /\ Free(w)
    /\ users' = delete_one(users, sender)
    /\ proc' = [proc EXCEPT ![w] =
          [op |-> "stop", sender |-> sender, pc |-> "done",
           texts |-> <<goodbye>>]]
    /\ UNCHANGED <<tracks, req, texts, audios, raised, turn, delivered, chats>>

NextUserRace ==
    \/ \E w \in Procs, s \in Senders : start_find(w, s)
    \/ \E w \in Procs : start_insert(w)
    \/ \E w \in Procs, s \in Senders : stop_proc(w, s)

UserRaceSpec == Init /\ [][NextUserRace]_vars

----------------------------------------------------------------------------
(* One chat that follows only the continuations it is offered: a query,    *)
(* then, while the last reply carries the show-more keyboard, the button   *)
(* of that keyboard, whose text names the page it was sent on.             *)

follow ==
    /\ IsSearch(req)
    /\ raised = "none"
    /\ audios # <<>>
    /\ ~audios[1].reply_markup.hide_keyboard
    /\ more(req.page, req.query)

NextFollow ==
    \/ \E q \in Queries : music(q)
    \/ \E q \in Queries : default(q)
    \/ follow

FollowSpec == InitSearch /\ [][NextFollow]_vars

----------------------------------------------------------------------------
(* Every handler of the bot, in the one process: each runs to its end      *)
(* before the next update is handled.                                      *)

help == "help"

Replied(text) ==
    /\ texts' = <<text>>
    /\ audios' = <<>>
    /\ raised' = "none"
    /\ NoSession
    /\ Elsewhere

\* @bot.command(r'/start')
start(sender) ==
    /\ req' = [op |-> "start", sender |-> sender]
    /\ users' = IF find_user(sender)
                THEN users
                ELSE insert_one(users, SenderDoc(sender))
    /\ Replied(greeting)
    /\ UNCHANGED tracks

\* Faulty variant of stop: the tracks the user sent leave with the user
stop_with_tracks(sender) ==
    /\ req' = [op |-> "stop", sender |-> sender]
    /\ users' = delete_one(users, sender)
    /\ tracks' = SelectSeq(tracks, LAMBDA t : t.sender # sender)
    /\ Replied(goodbye)

\* @bot.command(r'/stop')
stop(sender) ==
    /\ req' = [op |-> "stop", sender |-> sender]
    /\ users' = delete_one(users, sender)
    /\ Replied(goodbye)
    /\ UNCHANGED tracks

\* @bot.command(r'/music(@%s)?$' % bot.name)
usage_music ==
    /\ req' = [op |-> "usage"]
    /\ Replied(greeting)
    /\ UNCHANGED <<tracks, users>>

\* @bot.command(r'/?help')
usage_help ==
    /\ req' = [op |-> "help"]
    /\ Replied(help)
    /\ UNCHANGED <<tracks, users>>

BotAudios == {a \in Audios : "performer" \notin DOMAIN a}

NextBot ==
    \/ \E s \in Senders, a \in BotAudios : add_track(s, a)
    \/ \E q \in Queries : music(q)
    \/ \E q \in Queries : default(q)
    \/ \E n \in 1 .. MaxPage - 1, q \in Queries : more(n, q)
    \/ stats
    \/ \E s \in Senders : start(s)
    \/ \E s \in Senders : stop(s)
    \/ usage_music
    \/ usage_help

BotSpec == Init /\ [][NextBot]_vars

----------------------------------------------------------------------------
(* Properties of add_track (Spec)                                          *)

IsAudio(r) == r.op = "audio"

\* a track with this file id is in the store
Stored(fid) == \E i \in 1 .. Len(tracks) : tracks[i].file_id = fid

\* C1: an audio update whose file_id is already in the track store leaves
\* the store as it was and sends nothing to the sender, whatever its other
\* fields are.
C1_DuplicateIsSilentNoOp ==
    [][ (IsAudio(req') /\ Stored(req'.audio.file_id))
        => /\ tracks' = tracks
           /\ texts' = <<>>
           /\ audios' = <<>>
           /\ raised' = "none" ]_vars

\* a resubmission by another sender, with a title and another performer than
\* the stored track's, was handled in silence
C1_Witness ==
    /\ IsAudio(req)
    /\ HasTitle(req.audio)
    /\ texts = <<>>
    /\ Len(tracks) = 2
    /\ \E i \in 1 .. Len(tracks) :
          /\ tracks[i].file_id = req.audio.file_id
          /\ Get(tracks[i], "performer") # Get(req.audio, "performer")
          /\ tracks[i].sender # req.sender

\* C2: an audio update without a title never changes the track store; when
\* its file_id is not stored, the sender gets the missing-title message.
C2_MissingTitleNeverWrites ==
    [][ (IsAudio(req') /\ "title" \notin DOMAIN req'.audio)
        => /\ tracks' = tracks
           /\ ~Stored(req'.audio.file_id)
                => /\ texts' = <<missing_title>>
                   /\ audios' = <<>>
                   /\ raised' = "none" ]_vars

\* an untitled payload with a performer was rejected while the store held tracks
C2_Witness ==
    /\ IsAudio(req)
    /\ "title" \notin DOMAIN req.audio
    /\ "performer" \in DOMAIN req.audio
    /\ texts = <<missing_title>>
    /\ Len(tracks) >= 1
    /\ ~Stored(req.audio.file_id)

\* C3: the lookup comes before the title validation: an untitled payload
\* whose file_id is stored is handled in silence, without the missing-title
\* message.
C3_DuplicateBeforeTitle ==
    [][ (/\ IsAudio(req')
         /\ "title" \notin DOMAIN req'.audio
         /\ Stored(req'.audio.file_id))
        => /\ texts' = <<>>
           /\ tracks' = tracks ]_vars

\* an untitled payload carrying a stored file id was handled in silence
C3_Witness ==
    /\ IsAudio(req)
    /\ "title" \notin DOMAIN req.audio
    /\ Stored(req.audio.file_id)
    /\ texts = <<>>

\* C4: a titled payload whose file_id is not stored adds exactly one record,
\* the payload's fields verbatim plus sender = the submitting user's id, and
\* leaves every other record as it was.
C4_AcceptedAddsOneRecord ==
    [][ (/\ IsAudio(req')
         /\ "title" \in DOMAIN req'.audio
         /\ ~Stored(req'.audio.file_id))
        => LET n == Len(tracks)
               new == tracks'[n + 1]
           IN /\ Len(tracks') = n + 1
              /\ SubSeq(tracks', 1, n) = tracks
              /\ DOMAIN new = DOMAIN req'.audio \cup {"sender"}
              /\ \A k \in DOMAIN req'.audio : new[k] = req'.audio[k]
              /\ new.sender = req'.sender
              /\ texts' = <<>> ]_vars

\* sender 2 added a track without performer behind a track of sender 1
C4_Witness ==
    /\ IsAudio(req)
    /\ req.sender = 2
    /\ Len(tracks) = 2
    /\ tracks[1].sender = 1
    /\ tracks[2] = [file_id |-> req.audio.file_id, title |-> "haze", sender |-> 2]
    /\ req.audio = [file_id |-> req.audio.file_id, title |-> "haze"]

----------------------------------------------------------------------------
(* Properties of search_tracks (SearchSpec)                                *)

\* the indices of the tracks the query matches, and their number
MatchIdx(query) == {i \in 1 .. Len(tracks) : Score(tracks[i], query) > 0}
TotalCount(query) == Cardinality(MatchIdx(query))

Min(a, b) == IF a <= b THEN a ELSE b

\* ceil(n / d)
Ceil(n, d) == CHOOSE k \in 0 .. n : k * d >= n /\ (k - 1) * d < n

\* the query's ranked result list, and the first result of a page's window
Ranked(query) == search_db(query).docs
WindowStart(page) == (page - 1) * PageLimit
HasWindow(query, page) == WindowStart(page) < TotalCount(query)
WindowTop(query, page) == Ranked(query)[WindowStart(page) + 1]

\* the last handler answered a query with a page of tracks
PageSent == IsSearch(req) /\ raised = "none" /\ audios # <<>>

\* the page carries the show-more keyboard
ShowsMore == ~audios[1].reply_markup.hide_keyboard

\* C5: when the top-ranked result of the requested window scores >= 2, the
\* response carries no show-more keyboard, even when the query matches more
\* than one track.
C5_ExactMatchHidesShowMore ==
    (/\ PageSent
     /\ HasWindow(req.query, req.page)
     /\ WindowTop(req.query, req.page).score >= Tenths(2))
    => \A i \in 1 .. Len(audios) : audios[i].reply_markup.hide_keyboard

\* C6: when the first result of the requested window scores >= 2, the
\* response is exactly one track, the top-ranked result of that window.
C6_ExactMatchSendsWindowTop ==
    (/\ IsSearch(req)
     /\ HasWindow(req.query, req.page)
     /\ WindowTop(req.query, req.page).score >= Tenths(2))
    => /\ raised = "none"
       /\ Len(audios) = 1
       /\ audios[1].audio = WindowTop(req.query, req.page).file_id

\* C7: when the first result of the requested window scores < 2, the
\* show-more keyboard is shown exactly when the total count exceeds page * 3,
\* and then names this page, ceil(total / 3) pages and the query.
C7_ShowMoreAndTotalPages ==
    (/\ IsSearch(req)
     /\ HasWindow(req.query, req.page)
     /\ WindowTop(req.query, req.page).score < Tenths(2))
    => /\ PageSent
       /\ ShowsMore <=> TotalCount(req.query) > req.page * 3
       /\ \A i \in 1 .. Len(audios) :
             audios[i].reply_markup = audios[1].reply_markup
       /\ ShowsMore =>
             /\ audios[1].reply_markup.pages = Ceil(TotalCount(req.query), 3)
             /\ audios[1].reply_markup.page = req.page
             /\ audios[1].reply_markup.query = req.query

\* a first page of three tracks offering page 1 of 2, over a catalog that
\* holds a track the query does not match
C7_Witness ==
    /\ PageSent
    /\ req.page = 1
    /\ Len(audios) = 3
    /\ ShowsMore
    /\ audios[1].reply_markup.pages = 2
    /\ TotalCount(req.query) = 4
    /\ Len(tracks) > 4

\* no match of the query scores >= 2
NoExact(query) == \A i \in MatchIdx(query) : Score(tracks[i], query) < Tenths(2)

\* the stored track with this file id (file ids are unique in a catalog)
TrackOf(fid) == tracks[CHOOSE i \in 1 .. Len(tracks) : tracks[i].file_id = fid]

\* C8: for a query with N >= 1 matches, none scoring >= 2, pages 1 .. ceil(N/3)
\* asked in turn deliver the ranked result list piece by piece: page k holds
\* min(3, N - 3(k-1)) tracks, the tracks delivered so far are the first
\* min(3k, N) of the list, each once and in descending score, show-more is
\* offered on every page but the last, and after the last page every match
\* has been delivered.
C8_PagesInTurnDeliverAll ==
    LET q == req.query
        k == req.page
        N == TotalCount(q)
        last == Ceil(N, 3)
        got == Len(delivered)
    IN (/\ IsSearch(req)
        /\ turn = k
        /\ N >= 1
        /\ NoExact(q)
        /\ k <= last)
       => /\ PageSent
          /\ Len(audios) = Min(3, N - 3 * (k - 1))
          /\ got = Min(3 * k, N)
          /\ \A i, j \in 1 .. got : i # j => delivered[i] # delivered[j]
          /\ \A i \in 1 .. got :
                \E m \in MatchIdx(q) : tracks[m].file_id = delivered[i]
          /\ \A i, j \in 1 .. got :
                i < j => Score(TrackOf(delivered[i]), q) >= Score(TrackOf(delivered[j]), q)
          /\ \A i \in 1 .. got : delivered[i] = Ranked(q)[i].file_id
          /\ ShowsMore <=> k < last
          /\ k = last =>
                {delivered[i] : i \in 1 .. got} = {tracks[m].file_id : m \in MatchIdx(q)}

\* the second and last page of five matches, in a catalog with a track the
\* query does not match, has been delivered after the first
C8_Witness ==
    /\ PageSent
    /\ req.op = "more"
    /\ turn = 2
    /\ req.page = 2
    /\ TotalCount(req.query) = 5
    /\ Len(tracks) = 6
    /\ NoExact(req.query)
    /\ Len(delivered) = 5
    /\ Len(audios) = 2
    /\ ~ShowsMore

\* C9: whenever a page carries the show-more keyboard, the follow-up request
\* for page + 1 of the same query is answered with a page of at least one
\* track: not with the not-found message, and not with an error.
C9_FollowUpIsAnswered ==
    [][ (/\ PageSent
         /\ ShowsMore
         /\ req'.op = "more"
         /\ req'.query = req.query
         /\ req'.page = req.page + 1)
        => /\ raised' = "none"
           /\ texts' = <<>>
           /\ audios' # <<>> ]_vars

\* C10: a query is answered with the not-found message, and nothing else,
\* exactly when it matches no track, on every page; a handler that ends
\* without error and without that message has sent at least one track.
C10_NotFoundIffNoMatch ==
    IsSearch(req)
    => /\ texts = <<not_found>> <=> TotalCount(req.query) = 0
       /\ texts \in {<<>>, <<not_found>>}
       /\ texts = <<not_found>> => (audios = <<>> /\ raised = "none")
       /\ (texts = <<>> /\ raised = "none") => audios # <<>>

\* page 2 of a query without match, in a catalog that holds tracks
C10_Witness ==
    /\ IsSearch(req)
    /\ req.page = 2
    /\ tracks # <<>>
    /\ texts = <<not_found>>

----------------------------------------------------------------------------
(* Properties of the chats' searches (SessionSpec)                         *)

SameReply(a, b) ==
    /\ a.texts = b.texts
    /\ a.audios = b.audios
    /\ a.raised = b.raised

----------------------------------------------------------------------------
(* Properties of the stores                                                *)

\* the number of stored tracks with this file id
CountFileId(fid) == Cardinality({i \in 1 .. Len(tracks) : tracks[i].file_id = fid})

\* C12: with submissions handled one at a time, lookup and insert of one
\* before the lookup of the next, the track store never holds two records
\* with the same file_id.
C12_OneRecordPerFileId ==
    \A fid \in FileIds : CountFileId(fid) <= 1

\* a second sender resubmitted a stored file id to a store of two tracks, and
\* the store still holds one record for it
C12_Witness ==
    /\ IsAudio(req)
    /\ HasTitle(req.audio)
    /\ Len(tracks) = 2
    /\ CountFileId(req.audio.file_id) = 1
    /\ \E i \in 1 .. Len(tracks) :
          tracks[i].file_id = req.audio.file_id /\ tracks[i].sender # req.sender

----------------------------------------------------------------------------
(* Properties of /stats (StatsSpec)                                        *)

\* C13: human_size(0) raises nothing and returns a string, so /stats on a
\* store that holds tracks whose file sizes sum to 0 answers with a summary.
C13_StatsOfZeroBytes ==
    (/\ req.op = "stats"
     /\ tracks # <<>>
     /\ SumFileSize(tracks) = 0)
    => /\ raised = "none"
       /\ Len(texts) = 1
       /\ texts[1] # stats_unavailable

----------------------------------------------------------------------------
(* Properties of concurrent submissions (TrackRaceSpec)                    *)

\* process w has handled an audio update to its end and written its record
Accepted(w) ==
    /\ proc[w].pc = "done"
    /\ proc[w].op = "audio"
    /\ proc[w].inserted

----------------------------------------------------------------------------
(* Properties of /start and /stop (UserRaceSpec)                           *)

CountUser(tuid) == Cardinality({i \in 1 .. Len(users) : users[i].id = tuid})

----------------------------------------------------------------------------
(* Properties of followed continuations (FollowSpec)                       *)

\* C16: from page 1 on, following only the offered continuations, every reply
\* is a response (not found, or a page of tracks), and the pages followed
\* stay within the pages the result list has; so the chain ends, after
\* finitely many show-more requests, in not found or in a page without the
\* show-more keyboard.
C16_FollowEndsInTerminal ==
    IsSearch(req)
    => /\ raised = "none"
       /\ \/ texts = <<not_found>> /\ audios = <<>>
          \/ texts = <<>> /\ audios # <<>>
       /\ TotalCount(req.query) > 0
          => req.page <= Ceil(TotalCount(req.query), PageLimit)

----------------------------------------------------------------------------
(* The short-circuit on later pages (SearchSpec)                           *)

\* file ids of the window of up to PageLimit results at offset (page-1)*3
WindowIds(query, page) ==
    LET n == TotalCount(query)
        last == Min(WindowStart(page) + PageLimit, n)
    IN [i \in 1 .. last - WindowStart(page) |->
           Ranked(query)[WindowStart(page) + i].file_id]

----------------------------------------------------------------------------
(* The track store under every handler (BotSpec)                           *)

\* C17: the track store is append-only: whatever handler runs, every stored
\* record stays in the store with the fields it has, and the number of
\* tracks never decreases.
C17_TracksAppendOnly ==
    [][ /\ Len(tracks') >= Len(tracks)
        /\ SubSeq(tracks', 1, Len(tracks)) = tracks ]_vars

\* a user who sent a stored track has opted out, and the store still holds
\* that track and another sender's
C17_Witness ==
    /\ req.op = "stop"
    /\ Len(tracks) >= 2
    /\ \E i \in 1 .. Len(tracks) : tracks[i].sender = req.sender
    /\ \E i \in 1 .. Len(tracks) : tracks[i].sender # req.sender

====
